---- MODULE Spec2Model ----
(***************************************************************************)
(* Model of src/src/App.js: the data-fetch orchestration of the dashboard. *)
(*                                                                         *)
(* App mounts, issues three POSTs joined with Promise.all and either       *)
(* stores dashlaneInfo or raises hasError.  Body (rendered only once       *)
(* dashlaneInfo is set) keeps activeUser / userDevices and re-runs         *)
(* fetchUserDevice whenever activeUser changes.  JavaScript is single      *)
(* threaded: every action below is one macrotask (an effect run, a click   *)
(* handler together with the effect it triggers, or a network completion   *)
(* together with the async continuation it resumes).                       *)
(***************************************************************************)
EXTENDS Integers, Sequences, FiniteSets, TLC

VARIABLES AUTH_TOKEN, pc, resp, sent, dashlaneInfo, hasError,
          activeUser, userDevices, inflight, shown, errors

vars == <<AUTH_TOKEN, pc, resp, sent, dashlaneInfo, hasError,
          activeUser, userDevices, inflight, shown, errors>>

(* ------------------------------ bounds --------------------------------- *)
MaxHist == 2          \* longest history sequence a PasswordHealth response carries
MaxRequests == 3      \* cap on MembersDeviceInformation requests issued in a run

(* ------------------------------ values --------------------------------- *)
\* JS null.  TLC compares only values of one kind, so the null of an
\* object-valued slot is a record and the null of the string-valued
\* activeUser is a string; arrays held in a nullable slot are records
\* [items |-> <<...>>].
Null == [null |-> TRUE]        \* useState(null) of dashlaneInfo, userDevices
NullUser == "null"             \* useState(null) of activeUser
Array(s) == [items |-> s]
Undefined == "undefined"       \* JS undefined: unset process.env entry
NoEmail == ""                  \* a member whose email is the empty string (falsy)
EmailA == "a@x.com"
EmailB == "b@x.com"
EmailOrder == <<NoEmail, EmailA, EmailB>>   \* orderBy: 'email', order: 'ASC'

InitialOps == {"Status", "PasswordHealth", "Members"}
DeviceOp == "MembersDeviceInformation"
AllOps == InitialOps \cup {DeviceOp}

\* JS truthiness of the values activeUser can hold
Truthy(v) == v \notin {NullUser, Undefined, NoEmail}

(* --------------------------- pure functions ---------------------------- *)
getUserRoleSwapped(role) ==
    IF role.billingAdmin THEN "Billing Admin"
    ELSE IF role.groupManager THEN "Group Manager"
    ELSE IF role.teamAdmin THEN "Admin"
    ELSE "User"

getUserRole(role) ==
    IF role.teamAdmin THEN "Admin"
    ELSE IF role.groupManager THEN "Group Manager"
    ELSE IF role.billingAdmin THEN "Billing Admin"
    ELSE "User"

\* Numbers on the 0..1 scale are exact rationals num/den (den > 0).
\* score / 100 with an integer score is the rational score/100; the literals
\* 0.8 and 0.6 are 8/10 and 6/10.  IEEE division is correctly rounded and
\* monotone, so k/100 >= 0.8 in doubles exactly when k >= 80 (same for 0.6).
Rat(n, d) == [num |-> n, den |-> d]
Geq(x, y) == x.num * y.den >= y.num * x.den
Gt(x, y) == x.num * y.den > y.num * x.den

getScoreColorStrict(score) ==
    IF Gt(score, Rat(8, 10)) THEN "green"
    ELSE IF Gt(score, Rat(6, 10)) THEN "orange"
    ELSE "red"

getScoreColor(score) ==
    IF Geq(score, Rat(8, 10)) THEN "green"
    ELSE IF Geq(score, Rat(6, 10)) THEN "orange"
    ELSE "red"

\* [...healthscore.data.data.history, healthscore.data.data.current]
healthscoreCurrentFirst(data) == <<data.current>> \o data.history

healthscoreSeries(data) == data.history \o <<data.current>>

\* Promise.all: fulfilled only when every input promise is fulfilled,
\* rejected as soon as one input promise is rejected.
PromiseAllFulfilled(r) == \A op \in InitialOps : r[op].state = "ok"

PromiseRejectedWhenAllFail(r) == \A op \in InitialOps : r[op].state = "fail"

PromiseAllRejected(r) == \E op \in InitialOps : r[op].state = "fail"

(* ------------------------ response payload sets ------------------------ *)
Seats(a, r, p) == [seats |-> [active |-> a, remaining |-> r, pending |-> p]]
Teams == {Seats(1, 2, 0), Seats(3, 0, 1)}

Point(s) == [score |-> s]
SeqsUpTo(S, n) == UNION {[1..k -> S] : k \in 0..n}
HealthPayloads(histScores, curScores, n) ==
    {[history |-> h, current |-> Point(c)] :
        h \in SeqsUpTo({Point(s) : s \in histScores}, n), c \in curScores}

BoolRoles == [teamAdmin : BOOLEAN, groupManager : BOOLEAN, billingAdmin : BOOLEAN]
PlainRole == [teamAdmin |-> FALSE, groupManager |-> FALSE, billingAdmin |-> FALSE]
Absent == [status |-> "absent", role |-> PlainRole]

\* Rosters: members sorted by email, emails unique within a response.
RosterOf(f) ==
    LET full == [i \in 1..Len(EmailOrder) |->
                    [email |-> EmailOrder[i], status |-> f[i].status, role |-> f[i].role]]
    IN [members |-> SelectSeq(full, LAMBDA m : m.status # "absent")]
Rosters(roles) ==
    {RosterOf(f) : f \in [1..Len(EmailOrder) ->
        {Absent} \cup [status : {"accepted", "pending"}, role : roles]]}

Laptop == [name |-> "laptop", platform |-> "macos"]
Phone == [name |-> "phone", platform |-> "android"]
\* what the service may answer for a device lookup of one email
Inventory(email) == IF email = EmailA THEN {Array(<<>>), Array(<<Laptop>>)}
                    ELSE {Array(<<>>), Array(<<Phone>>)}

MainPayloads(op) ==
    CASE op = "Status" -> Teams
      [] op = "PasswordHealth" -> HealthPayloads({40, 90}, {59, 80}, MaxHist)
      [] op = "Members" -> Rosters({PlainRole})

(* -------------------------------- Init --------------------------------- *)
Init ==
    /\ AUTH_TOKEN \in {"key", Undefined}
    /\ pc = "start"
    /\ resp = [op \in InitialOps |-> [state |-> "idle", data |-> Null]]
    /\ sent = [op \in AllOps |-> 0]
    /\ dashlaneInfo = Null
    /\ hasError = FALSE
    /\ activeUser = NullUser
    /\ userDevices = Null
    /\ inflight = {}
    /\ shown = Null
    /\ errors = [info |-> 0, devices |-> 0]

bodyVars == <<activeUser, userDevices, inflight, shown>>

\* App renders <Body> only when !hasError and dashlaneInfo is set
BodyMounted == ~hasError /\ dashlaneInfo # Null

(* ------------------------------ App ------------------------------------ *)
\* useEffect(..., []) of App: runs fetchDashlaneInfo up to the await.  The
\* three POSTs go out whatever AUTH_TOKEN is: the header is the template
\* literal `Bearer ${AUTH_TOKEN}`, which reads "Bearer undefined" when the
\* environment variable is unset, and nothing inspects it before sending.
MountAgain ==
    /\ pc \in {"start", "done"}
    /\ sent["Status"] < 2
    /\ pc' = "await"
    /\ hasError' = FALSE
    /\ resp' = [op \in InitialOps |-> [state |-> "pending", data |-> Null]]
    /\ sent' = [op \in AllOps |-> IF op \in InitialOps THEN sent[op] + 1 ELSE sent[op]]
    /\ UNCHANGED <<AUTH_TOKEN, dashlaneInfo, errors>>
    /\ UNCHANGED bodyVars

Mount ==
    /\ pc = "start"
    /\ pc' = "await"
    /\ hasError' = FALSE
    /\ resp' = [op \in InitialOps |-> [state |-> "pending", data |-> Null]]
    /\ sent' = [op \in AllOps |-> IF op \in InitialOps THEN sent[op] + 1 ELSE sent[op]]
    /\ UNCHANGED <<AUTH_TOKEN, dashlaneInfo, errors>>
    /\ UNCHANGED bodyVars

\* One of the three POSTs completes with a 2xx body; if that fulfils the
\* Promise.all, the continuation after the await runs (setDashlaneInfo).
RequestSucceeds(op, data) ==
    /\ resp[op].state = "pending"
    /\ LET r == [resp EXCEPT ![op] = [state |-> "ok", data |-> data]]
       IN /\ resp' = r
          /\ IF pc = "await" /\ PromiseAllFulfilled(r)
             THEN /\ dashlaneInfo' = [team |-> r["Status"].data,
                                      healthscore |-> healthscoreSeries(r["PasswordHealth"].data),
                                      users |-> r["Members"].data]
                  /\ pc' = "done"
             ELSE UNCHANGED <<dashlaneInfo, pc>>
    /\ UNCHANGED <<AUTH_TOKEN, sent, hasError, errors>>
    /\ UNCHANGED bodyVars

\* One of the three POSTs fails; the first failure rejects the Promise.all
\* and the catch block runs (setHasError(true), console.error).
RequestFails(op) ==
    /\ resp[op].state = "pending"
    /\ LET r == [resp EXCEPT ![op] = [state |-> "fail", data |-> Null]]
       IN /\ resp' = r
          /\ IF pc = "await" /\ PromiseAllRejected(r)
             THEN /\ hasError' = TRUE
                  /\ errors' = [errors EXCEPT !.info = @ + 1]
                  /\ pc' = "caught"
             ELSE UNCHANGED <<hasError, errors, pc>>
    /\ UNCHANGED <<AUTH_TOKEN, sent, dashlaneInfo>>
    /\ UNCHANGED bodyVars

(* ------------------------------ Body ----------------------------------- *)
\* onClick of the button of member row i (rendered only for status
\* 'accepted'): setActiveUser(user.email); when the state value changes the
\* effect [activeUser] re-runs fetchUserDevice up to its await.
onClick(i) ==
    /\ BodyMounted
    /\ i \in DOMAIN dashlaneInfo.users.members
    /\ LET user == dashlaneInfo.users.members[i]
           issue == user.email # activeUser /\ Truthy(user.email)
       IN /\ user.status = "accepted"
          /\ issue => sent[DeviceOp] < MaxRequests
          /\ activeUser' = user.email
          /\ IF issue
             THEN /\ sent' = [sent EXCEPT ![DeviceOp] = @ + 1]
                  /\ inflight' = inflight \cup
                        {[id |-> sent[DeviceOp] + 1, email |-> user.email]}
             ELSE UNCHANGED <<sent, inflight>>
    /\ UNCHANGED <<AUTH_TOKEN, pc, resp, dashlaneInfo, hasError, userDevices, shown, errors>>

\* a device lookup completes with a 2xx body: setUserDevices(devices)
DeviceSucceeds(q, devices) ==
    /\ q \in inflight
    /\ inflight' = inflight \ {q}
    /\ userDevices' = devices
    /\ shown' = q
    /\ UNCHANGED <<AUTH_TOKEN, pc, resp, sent, dashlaneInfo, hasError, activeUser, errors>>

\* a device lookup fails: the catch block only logs
DeviceFailsClearing(q) ==
    /\ q \in inflight
    /\ inflight' = inflight \ {q}
    /\ errors' = [errors EXCEPT !.devices = @ + 1]
    /\ userDevices' = Null
    /\ shown' = Null
    /\ UNCHANGED <<AUTH_TOKEN, pc, resp, sent, dashlaneInfo, hasError, activeUser>>

DeviceFails(q) ==
    /\ q \in inflight
    /\ inflight' = inflight \ {q}
    /\ errors' = [errors EXCEPT !.devices = @ + 1]
    /\ UNCHANGED <<AUTH_TOKEN, pc, resp, sent, dashlaneInfo, hasError,
                   activeUser, userDevices, shown>>

(* ------------------------- derived view (render) ----------------------- *)
\* UserProfile: const role = getUserRole(user.role), for member row i
RoleLabel(i) == getUserRole(dashlaneInfo.users.members[i].role)

\* HealthScoreDetails: healthscore[healthscore.length - 1]
currentScore == dashlaneInfo.healthscore[Len(dashlaneInfo.healthscore)]

\* HealthScoreDetails: getScoreColor(currentScore.score / 100)
scoreColor == getScoreColor(Rat(currentScore.score, 100))

(* --------------------------- specifications ---------------------------- *)
Next ==
    \/ Mount
    \/ \E op \in InitialOps : \E data \in MainPayloads(op) : RequestSucceeds(op, data)
    \/ \E op \in InitialOps : RequestFails(op)
    \/ \E i \in 1..Len(EmailOrder) : onClick(i)
    \/ \E q \in inflight : \E devices \in Inventory(q.email) : DeviceSucceeds(q, devices)
    \/ \E q \in inflight : DeviceFails(q)

Spec == Init /\ [][Next]_vars

\* The initial load with every combination of role flags in the roster.
RolePayloads(op) ==
    CASE op = "Status" -> {Seats(1, 2, 0)}
      [] op = "PasswordHealth" -> HealthPayloads({40}, {80}, 0)
      [] op = "Members" -> Rosters(BoolRoles)

NextRole ==
    \/ Mount
    \/ \E op \in InitialOps : \E data \in RolePayloads(op) : RequestSucceeds(op, data)

SpecRole == Init /\ [][NextRole]_vars

\* The initial load with every integer score 0..100 as the current point.
ScorePayloads(op) ==
    CASE op = "Status" -> {Seats(1, 2, 0)}
      [] op = "PasswordHealth" -> HealthPayloads({40}, 0..100, MaxHist)
      [] op = "Members" -> Rosters({PlainRole})

NextScore ==
    \/ Mount
    \/ \E op \in InitialOps : \E data \in ScorePayloads(op) : RequestSucceeds(op, data)

SpecScore == Init /\ [][NextScore]_vars

(* ------------------------------- claims -------------------------------- *)
\* C1: last-issued selection wins -- whenever a device response writes the
\* device list, it is the response to the most recently issued request; a
\* response to a superseded request never overwrites the list.
C1_LastIssuedWins ==
    [][shown' # shown => shown'.id = sent[DeviceOp]]_vars

\* C2: the initial load is all-or-nothing -- as soon as any of the three
\* initial requests has failed, whatever the others did, the dashboard is in
\* the global error state and dashlaneInfo is not populated.
C2_AllOrNothing ==
    (\E op \in InitialOps : resp[op].state = "fail")
        => hasError /\ dashlaneInfo = Null /\ pc = "caught"

C2_Witness ==
    /\ resp["Status"].state = "fail"
    /\ resp["PasswordHealth"].state = "ok"
    /\ resp["Members"].state = "ok"
    /\ hasError

\* C3: a step that sets the selection to an empty value clears the device
\* list and issues no MembersDeviceInformation request.
C3_NullSelectionClears ==
    [][~Truthy(activeUser') /\ activeUser' # activeUser
          => userDevices' = Null /\ sent' = sent]_vars

\* C4: a failed device lookup is isolated -- the step that logs the failure
\* leaves the device list, dashlaneInfo and hasError as they were.
C4_DeviceFailureIsolated ==
    [][errors'.devices # errors.devices
          => UNCHANGED <<userDevices, dashlaneInfo, hasError>>]_vars

C4_Witness ==
    /\ errors.devices > 0
    /\ userDevices # Null
    /\ userDevices.items # <<>>
    /\ ~hasError

\* C5: after three successful responses the stored series is the history in
\* its original order followed by the current point (length len(history)+1,
\* last element the current point), and team and members are stored verbatim.
C5_SeriesIsHistoryThenCurrent ==
    dashlaneInfo # Null =>
        LET d == resp["PasswordHealth"].data
            hs == dashlaneInfo.healthscore
        IN /\ Len(hs) = Len(d.history) + 1
           /\ hs[Len(hs)] = d.current
           /\ \A i \in 1..Len(d.history) : hs[i] = d.history[i]
           /\ dashlaneInfo.team = resp["Status"].data
           /\ dashlaneInfo.users = resp["Members"].data

C5_Witness ==
    /\ dashlaneInfo # Null
    /\ Len(dashlaneInfo.healthscore) = 3
    /\ dashlaneInfo.healthscore[1] # dashlaneInfo.healthscore[2]
    /\ dashlaneInfo.healthscore[3].score = 59

\* C6: the initial load is issued once and dashlaneInfo is written at most
\* once -- once populated no step changes it, and after the mount effect has
\* run no step issues any of the three initial requests again.
C6_LoadOnce ==
    [][/\ dashlaneInfo # Null => dashlaneInfo' = dashlaneInfo
       /\ pc # "start" => \A op \in InitialOps : sent'[op] = sent[op]
       /\ \A op \in InitialOps : sent'[op] <= 1]_vars

C6_Witness ==
    /\ dashlaneInfo # Null
    /\ activeUser = EmailB
    /\ shown # Null
    /\ shown.email = EmailB
    /\ errors.devices > 0

\* C7: devices are not persisted across selections -- a non-empty visible
\* device list was fetched for the currently selected member.
C7_DevicesOfCurrentSelection ==
    (userDevices # Null /\ userDevices.items # <<>>) => shown.email = activeUser

\* C8: with the bearer credential absent no request is ever sent (every call
\* fails with a configuration error before reaching the network).
C8_NoTokenNoRequest ==
    AUTH_TOKEN = Undefined => \A op \in AllOps : sent[op] = 0

\* C9: for every combination of the three role flags the label of a member
\* row is exactly one of the four labels, chosen by the precedence
\* teamAdmin > groupManager > billingAdmin > plain user.
C9_RolePrecedence ==
    dashlaneInfo # Null =>
        \A i \in DOMAIN dashlaneInfo.users.members :
            LET f == dashlaneInfo.users.members[i].role
                l == RoleLabel(i)
            IN /\ l \in {"Admin", "Group Manager", "Billing Admin", "User"}
               /\ (l = "Admin") <=> f.teamAdmin
               /\ (l = "Group Manager") <=> (~f.teamAdmin /\ f.groupManager)
               /\ (l = "Billing Admin") <=>
                     (~f.teamAdmin /\ ~f.groupManager /\ f.billingAdmin)
               /\ (l = "User") <=>
                     (~f.teamAdmin /\ ~f.groupManager /\ ~f.billingAdmin)

C9_Witness ==
    /\ dashlaneInfo # Null
    /\ \E i \in DOMAIN dashlaneInfo.users.members :
          /\ ~dashlaneInfo.users.members[i].role.teamAdmin
          /\ dashlaneInfo.users.members[i].role.groupManager
          /\ dashlaneInfo.users.members[i].role.billingAdmin
          /\ RoleLabel(i) = "Group Manager"

\* C10: the colour band of the current (last) point is green for a score of
\* 80 or more, orange for 60..79 and red below 60 (scores 0..100, compared on
\* the 0..1 scale; 0.8 and 1.0 are green, 0.6 is orange).
C10_ScoreBands ==
    dashlaneInfo # Null =>
        LET s == resp["PasswordHealth"].data.current.score
        IN /\ (scoreColor = "green") <=> (s >= 80)
           /\ (scoreColor = "orange") <=> (s >= 60 /\ s < 80)
           /\ (scoreColor = "red") <=> (s < 60)

C10_Witness ==
    /\ dashlaneInfo # Null
    /\ currentScore.score = 80
    /\ scoreColor = "green"

====
